---- MODULE Spec2Model ----
(***************************************************************************)
(* Model of src/app.py, the Excel merge tool: the two submit handlers      *)
(* (the VLOOKUP form and the multi-file form), the pandas operations they  *)
(* call (read/clean, duplicated, merge, concat, isin, column assignment)   *)
(* and the four values they keep in st.session_state.                      *)
(*                                                                         *)
(* Strings of the source that are not ASCII are written in pinyin:         *)
(*   "BeiZhu"             the annotation column            (app.py:140)    *)
(*   "YiDuiDuoTiXing"     the annotation mark              (app.py:142)    *)
(*   "LaiYuanDangAn"      the source-file tag column       (app.py:249)    *)
(*   "LaiYuanGongZuoBiao" the source-sheet tag column      (app.py:250)    *)
(***************************************************************************)
EXTENDS Integers, Sequences, FiniteSets, TLC

VARIABLES
    app_mode,       \* the st.radio of app.py:45: "vlookup" or "multi"
    uploads,        \* the sheets read this run: <<[file, sheet, data]>>;
                    \* in vlookup mode uploads[1] is the left, uploads[2] the right sheet
    form,           \* the widgets' values when the form is submitted
    session_state,  \* st.session_state: final_df, unmatched_df,
                    \* duplication_warning_keys, merge_key
    written,        \* history: the session fields the latest submission assigned
    had_result,     \* history: the session held a result table when the latest
                    \* submission began
    message         \* the st.success / st.warning / st.error of the latest submission

vars == <<app_mode, uploads, form, session_state, written, had_result, message>>

-----------------------------------------------------------------------------
(* Bounds of the model *)

\* rows of the left (primary) sheet of a lookup
MaxLeftRows == 2
\* rows of the right (secondary) sheet of a lookup
MaxRightRows == 3
\* sheets of a concatenation
MaxSheets == 3
\* rows of each sheet of a concatenation
MaxSheetRows == 2
\* sheets of a key-join
MaxJoinSheets == 3
\* rows of each sheet of a key-join
MaxJoinRows == 2
\* sheets of a multi-file merge in a session of several submissions
MaxSessionSheets == 2
\* rows of each sheet in a session of several submissions
MaxSessionRows == 2

-----------------------------------------------------------------------------
(* Cell values: a Python int, a Python str, or NaN (an empty cell) *)

IntVal(n) == [t |-> "int", i |-> n, s |-> ""]
StrVal(x) == [t |-> "str", i |-> 0, s |-> x]
NaN == [t |-> "nan", i |-> 0, s |-> ""]

None == <<>>
Some(x) == <<x>>

Digit(d) ==
    CASE d = 0 -> "0" [] d = 1 -> "1" [] d = 2 -> "2" [] d = 3 -> "3"
      [] d = 4 -> "4" [] d = 5 -> "5" [] d = 6 -> "6" [] d = 7 -> "7"
      [] d = 8 -> "8" [] d = 9 -> "9"

RECURSIVE IntToStr(_)
\* str(n) of a non-negative Python int
IntToStr(n) == IF n < 10 THEN Digit(n) ELSE IntToStr(n \div 10) \o Digit(n % 10)

\* one element of Series.astype(str): str(1) = "1", str(nan) = "nan"
PyStr(v) ==
    CASE v.t = "int" -> StrVal(IntToStr(v.i))
      [] v.t = "nan" -> StrVal("nan")
      [] OTHER -> v

-----------------------------------------------------------------------------
(* DataFrames: column names in order, rows in order, row[j] under cols[j] *)

DataFrame(cols, rows) == [cols |-> cols, rows |-> rows]

Range(f) == {f[x] : x \in DOMAIN f}

ColIdx(df, c) == CHOOSE j \in 1..Len(df.cols) : df.cols[j] = c

\* df[c]: the column as a sequence of values
Column(df, c) == [r \in 1..Len(df.rows) |-> df.rows[r][ColIdx(df, c)]]

\* the dtype read_excel gives a column: object when it holds text (or nothing
\* at all), a numeric dtype when it holds numbers and empty cells only
IsObject(df, j) ==
    \/ Len(df.rows) = 0
    \/ \E r \in 1..Len(df.rows) : df.rows[r][j].t = "str"

\* read_and_clean_sheet after read_excel: object columns become str, the
\* others are left as they are (the model holds no datetime column)
read_and_clean_sheet(raw) ==
    DataFrame(raw.cols,
              [r \in 1..Len(raw.rows) |->
                  [j \in 1..Len(raw.cols) |->
                      IF IsObject(raw, j) THEN PyStr(raw.rows[r][j])
                                          ELSE raw.rows[r][j]]])

\* df[name] = value: overwrite the column in place, or append it
SetColumn(df, name, value) ==
    IF name \in Range(df.cols)
    THEN DataFrame(df.cols,
                   [r \in 1..Len(df.rows) |->
                       [j \in 1..Len(df.cols) |->
                           IF df.cols[j] = name THEN value ELSE df.rows[r][j]]])
    ELSE DataFrame(Append(df.cols, name),
                   [r \in 1..Len(df.rows) |-> Append(df.rows[r], value)])

\* df[[c1, c2, ...]]
SelectColumns(df, names) ==
    DataFrame(names,
              [r \in 1..Len(df.rows) |->
                  [j \in 1..Len(names) |-> df.rows[r][ColIdx(df, names[j])]]])

\* df[mask]: the rows at which keep holds, in order
RECURSIVE FilterRows(_, _, _)
FilterRows(rows, keep, r) ==
    IF r > Len(rows) THEN <<>>
    ELSE (IF keep[r] THEN <<rows[r]>> ELSE <<>>) \o FilterRows(rows, keep, r + 1)

\* df[df.duplicated(subset=[key], keep=False)][key].unique(): the key values
\* held by more than one row (as a set: the display order is not modelled)
DuplicatedKeys(df, key) ==
    LET col == Column(df, key)
    IN {col[r] : r \in {r \in DOMAIN col : \E q \in DOMAIN col : q # r /\ col[q] = col[r]}}

-----------------------------------------------------------------------------
(* pd.merge(left, right, on=key, how=how), how in inner / outer / left *)

IsUnique(seq) == \A i, j \in DOMAIN seq : seq[i] = seq[j] => i = j

HasText(seq) == \E r \in DOMAIN seq : seq[r].t = "str"

\* _maybe_coerce_merge_keys: a text key column against a numeric one raises
\* ValueError, unless exactly one of the two sides has no rows
KeyDtypeMismatch(left, right, on) ==
    /\ (Len(left.rows) = 0) = (Len(right.rows) = 0)
    /\ HasText(Column(left, on)) # HasText(Column(right, on))

\* the right side's columns other than the key
RightRest(right, on) == SelectSeq(right.cols, LAMBDA c : c # on)

\* the non-key columns the two sides share
Overlap(left, right, on) == (Range(left.cols) \cap Range(RightRest(right, on))) \ {on}

\* _items_overlap_with_suffix: a shared non-key column gets "_x" on the left
\* and "_y" on the right
Renamed(cols, overlap, suffix) ==
    [j \in 1..Len(cols) |-> IF cols[j] \in overlap THEN cols[j] \o suffix ELSE cols[j]]

\* the cells of right row q under the columns of RightRest
RightPart(right, on, q) ==
    LET rest == RightRest(right, on)
    IN [j \in 1..Len(rest) |-> right.rows[q][ColIdx(right, rest[j])]]

Pad(n) == [j \in 1..n |-> NaN]

\* left row r joined with the right rows q, q+1, ... that hold its key, in order
RECURSIVE MatchRows(_, _, _, _, _)
MatchRows(left, right, on, r, q) ==
    IF q > Len(right.rows) THEN <<>>
    ELSE (IF Column(right, on)[q] = Column(left, on)[r]
          THEN <<left.rows[r] \o RightPart(right, on, q)>>
          ELSE <<>>) \o MatchRows(left, right, on, r, q + 1)

\* the rows that come of left rows r, r+1, ...: each with its matches, or,
\* in a left or outer join, padded with NaN when it has none
RECURSIVE LeftJoinRows(_, _, _, _, _)
LeftJoinRows(left, right, on, how, r) ==
    IF r > Len(left.rows) THEN <<>>
    ELSE LET m == MatchRows(left, right, on, r, 1)
         IN (IF m # <<>> THEN m
             ELSE IF how = "inner" THEN <<>>
             ELSE <<left.rows[r] \o Pad(Len(RightRest(right, on)))>>)
            \o LeftJoinRows(left, right, on, how, r + 1)

\* the rows an outer join adds for right rows q, q+1, ... whose key the left
\* side does not hold: the key, NaN under the left columns, the right cells
RECURSIVE RightOnlyRows(_, _, _, _)
RightOnlyRows(left, right, on, q) ==
    IF q > Len(right.rows) THEN <<>>
    ELSE (IF Column(right, on)[q] \in Range(Column(left, on)) THEN <<>>
          ELSE <<[j \in 1..Len(left.cols) |->
                     IF left.cols[j] = on THEN Column(right, on)[q] ELSE NaN]
                 \o RightPart(right, on, q)>>)
         \o RightOnlyRows(left, right, on, q + 1)

\* pd.merge: [err, df]; err is "" when it returns df, else the exception.
\* The rows of an outer join are given in left order followed by the
\* right-only rows (pandas sorts them by key from 2.2 on); nothing below
\* reads the row order of an outer join.
Merge(left, right, on, how) ==
    LET lcols == Renamed(left.cols, Overlap(left, right, on), "_x")
        rcols == Renamed(RightRest(right, on), Overlap(left, right, on), "_y")
    IN IF KeyDtypeMismatch(left, right, on)
       THEN [err |-> "ValueError", df |-> DataFrame(<<>>, <<>>)]
       ELSE IF ~IsUnique(lcols) \/ ~IsUnique(rcols)
       THEN [err |-> "MergeError", df |-> DataFrame(<<>>, <<>>)]
       ELSE [err |-> "",
             df |-> DataFrame(lcols \o rcols,
                        LeftJoinRows(left, right, on, how, 1)
                        \o (IF how = "outer" THEN RightOnlyRows(left, right, on, 1)
                                             ELSE <<>>))]

\* reduce(lambda left, right: pd.merge(left, right, on, how), dfs): the fold
\* over dfs[i..], acc the merge so far; the first exception ends it
RECURSIVE ReduceMerge(_, _, _, _, _)
ReduceMerge(acc, dfs, on, how, i) ==
    IF i > Len(dfs) THEN [err |-> "", df |-> acc]
    ELSE LET m == Merge(acc, dfs[i], on, how)
         IN IF m.err # "" THEN m ELSE ReduceMerge(m.df, dfs, on, how, i + 1)

-----------------------------------------------------------------------------
(* pd.concat(dfs, ignore_index=True) *)

\* the union of the column names, each at its first appearance
RECURSIVE UnionCols(_, _, _)
UnionCols(dfs, i, acc) ==
    IF i > Len(dfs) THEN acc
    ELSE UnionCols(dfs, i + 1,
                   acc \o SelectSeq(dfs[i].cols, LAMBDA c : c \notin Range(acc)))

\* the rows of df laid out under cols, NaN under a column df does not have
Reindexed(df, cols) ==
    [r \in 1..Len(df.rows) |->
        [j \in 1..Len(cols) |->
            IF cols[j] \in Range(df.cols) THEN df.rows[r][ColIdx(df, cols[j])]
                                          ELSE NaN]]

RECURSIVE StackRows(_, _, _)
StackRows(dfs, cols, i) ==
    IF i > Len(dfs) THEN <<>>
    ELSE Reindexed(dfs[i], cols) \o StackRows(dfs, cols, i + 1)

\* pd.concat over all sheets but the last
Concat_all_but_last(dfs) ==
    DataFrame(UnionCols(dfs, 1, <<>>),
              StackRows(SubSeq(dfs, 1, Len(dfs) - 1), UnionCols(dfs, 1, <<>>), 1))

Concat(dfs) ==
    DataFrame(UnionCols(dfs, 1, <<>>), StackRows(dfs, UnionCols(dfs, 1, <<>>), 1))

-----------------------------------------------------------------------------
(* The annotation of rows whose key is duplicated (app.py:138-142, 280-284) *)

NOTE_COL == "BeiZhu"
NOTE_MARK == "YiDuiDuoTiXing"
SRC_FILE_COL == "LaiYuanDangAn"
SRC_SHEET_COL == "LaiYuanGongZuoBiao"

\* merged['BeiZhu'] = ''; merged.loc[merged[key].isin(keys), 'BeiZhu'] = mark
Annotate(merged, key, duplicated_keys) ==
    IF duplicated_keys = {} THEN merged
    ELSE LET blank == SetColumn(merged, NOTE_COL, StrVal(""))
             condition == [r \in 1..Len(blank.rows) |->
                              Column(blank, key)[r] \in duplicated_keys]
             n == ColIdx(blank, NOTE_COL)
         IN DataFrame(blank.cols,
                [r \in 1..Len(blank.rows) |->
                    IF condition[r]
                    THEN [blank.rows[r] EXCEPT ![n] = StrVal(NOTE_MARK)]
                    ELSE blank.rows[r]])

-----------------------------------------------------------------------------
(* st.session_state and the run of one submit handler *)

Fields == {"final_df", "unmatched_df", "duplication_warning_keys", "merge_key"}

\* app.py:53-60: the session as the first run of the script leaves it
InitialSession ==
    [final_df |-> None, unmatched_df |-> None,
     duplication_warning_keys |-> {}, merge_key |-> None]

\* what a handler starts from: the session as the last run left it (s),
\* nothing assigned yet (w), nothing shown yet (msg)
Enter(session) == [s |-> session, w |-> {}, msg |-> ""]

\* st.session_state.<field> = value
Assign(ctx, field, value) ==
    [ctx EXCEPT !.s = [@ EXCEPT ![field] = value], !.w = @ \cup {field}]

Show(ctx, kind) == [ctx EXCEPT !.msg = kind]

-----------------------------------------------------------------------------
(* Mode 1: the lookup merge, app.py:105-151 *)

\* list(set(df_left.columns) & set(df_right.columns))
common_columns(df_left, df_right) == Range(df_left.cols) \cap Range(df_right.cols)

\* [col for col in df_right.columns if col != merge_key]
available_cols_from_right(df_right, merge_key) ==
    SelectSeq(df_right.cols, LAMBDA c : c # merge_key)

\* app.py:121-124
vlookup_reset(ctx, merge_key) ==
    Assign(Assign(Assign(Assign(ctx,
        "final_df", None),
        "unmatched_df", None),
        "duplication_warning_keys", {}),
        "merge_key", Some(merge_key))

\* the unmatched rows of the secondary sheet after drop_duplicates on the key
Unmatched_keep_first(df_right, df_left, merge_key) ==
    DataFrame(df_right.cols,
              FilterRows(df_right.rows,
                         [r \in 1..Len(df_right.rows) |->
                             /\ Column(df_right, merge_key)[r]
                                    \notin Range(Column(df_left, merge_key))
                             /\ \A p \in 1..(r - 1) :
                                    Column(df_right, merge_key)[p]
                                        # Column(df_right, merge_key)[r]],
                         1))

\* app.py:147: df_right[~df_right[merge_key].isin(df_left[merge_key])]
Unmatched(df_right, df_left, merge_key) ==
    DataFrame(df_right.cols,
              FilterRows(df_right.rows,
                         [r \in 1..Len(df_right.rows) |->
                             Column(df_right, merge_key)[r]
                                 \notin Range(Column(df_left, merge_key))],
                         1))

\* app.py:131-151: the body of the try, and the except
vlookup_merge(ctx, df_left, df_right, merge_key, cols_to_merge) ==
    LET dup == DuplicatedKeys(df_right, merge_key)
        c1 == IF dup # {} THEN Assign(ctx, "duplication_warning_keys", dup) ELSE ctx
        df_right_selected == SelectColumns(df_right, <<merge_key>> \o cols_to_merge)
        m == Merge(df_left, df_right_selected, merge_key, "left")
    IN IF m.err # "" THEN Show(c1, "error")
       ELSE LET merged_df == Annotate(m.df, merge_key, c1.s.duplication_warning_keys)
                c2 == Show(Assign(c1, "final_df", Some(merged_df)), "success")
            IN Assign(c2, "unmatched_df", Some(Unmatched(df_right, df_left, merge_key)))

\* app.py:120-151
vlookup_submit(ctx, df_left, df_right, merge_key, cols_to_merge) ==
    IF merge_key = ""
    THEN Show(vlookup_reset(ctx, merge_key), "warning")
    ELSE vlookup_merge(vlookup_reset(ctx, merge_key),
                       df_left, df_right, merge_key, cols_to_merge)

-----------------------------------------------------------------------------
(* Mode 2: the multi-file merge, app.py:167-290 *)

\* the reset without st.session_state.unmatched_df = None
multi_reset_keeps_unmatched(ctx) ==
    Assign(Assign(Assign(ctx,
        "final_df", None),
        "duplication_warning_keys", {}),
        "merge_key", None)

\* app.py:237-240
multi_reset(ctx) ==
    Assign(Assign(Assign(Assign(ctx,
        "final_df", None),
        "unmatched_df", None),
        "duplication_warning_keys", {}),
        "merge_key", None)

\* app.py:249-250
TagSource(df, filename, sheet_name) ==
    SetColumn(SetColumn(df, SRC_FILE_COL, StrVal(filename)),
              SRC_SHEET_COL, StrVal(sheet_name))

\* app.py:242-251
all_dfs_to_merge(sheets, add_source_col, merge_type) ==
    [i \in 1..Len(sheets) |->
        IF add_source_col /\ merge_type = "vertical"
        THEN TagSource(read_and_clean_sheet(sheets[i].data),
                       sheets[i].file, sheets[i].sheet)
        ELSE read_and_clean_sheet(sheets[i].data)]

\* app.py:208-209, 213-217: the key the form offers is a column of every
\* selected sheet; with no such column join_key is ""
common_columns_for_key(sheets) ==
    {c \in UNION {Range(sheets[i].data.cols) : i \in 1..Len(sheets)} :
        \A i \in 1..Len(sheets) : c \in Range(sheets[i].data.cols)}

\* app.py:269-274
all_duplicated_keys(dfs, join_key) ==
    UNION {IF join_key \in Range(dfs[i].cols) THEN DuplicatedKeys(dfs[i], join_key)
                                              ELSE {} : i \in 1..Len(dfs)}

\* app.py:262-290, the horizontal branch
horizontal_merge(ctx, dfs, join_key, join_how) ==
    IF join_key = "" THEN Show(ctx, "error")
    ELSE IF Len(dfs) < 2 THEN Show(ctx, "warning")
    ELSE LET c1 == Assign(ctx, "merge_key", Some(join_key))
             dup == all_duplicated_keys(dfs, join_key)
             c2 == IF dup # {} THEN Assign(c1, "duplication_warning_keys", dup) ELSE c1
             m == ReduceMerge(dfs[1], dfs, join_key, join_how, 2)
         IN IF m.err # "" THEN Show(c2, "error")
            ELSE Show(Assign(c2, "final_df",
                        Some(Annotate(m.df, join_key, c2.s.duplication_warning_keys))),
                      "success")

\* app.py:259-260, 286-288, the vertical branch
vertical_merge(ctx, dfs) ==
    Show(Assign(ctx, "final_df", Some(Concat(dfs))), "success")

\* app.py:236-290
multi_submit(ctx, sheets, f) ==
    LET c0 == multi_reset(ctx)
        dfs == all_dfs_to_merge(sheets, f.add_source_col, f.merge_type)
    IN IF Len(dfs) = 0 THEN Show(c0, "warning")
       ELSE IF f.merge_type = "vertical" THEN vertical_merge(c0, dfs)
       ELSE horizontal_merge(c0, dfs, f.join_key, f.join_how)

-----------------------------------------------------------------------------
(* The actions: a press of a submit button runs its handler to the end *)

\* the widgets of the VLOOKUP form; the other form's widgets at their defaults
VForm(merge_key, cols_to_merge) ==
    [merge_key |-> merge_key, cols_to_merge |-> cols_to_merge,
     merge_type |-> "vertical", join_key |-> "", join_how |-> "inner",
     add_source_col |-> TRUE]

\* the widgets of the multi-file form
MForm(merge_type, join_key, join_how, add_source_col) ==
    [merge_key |-> "", cols_to_merge |-> <<>>,
     merge_type |-> merge_type, join_key |-> join_key, join_how |-> join_how,
     add_source_col |-> add_source_col]

\* app.py:65-151 with the sheets and widget values of the run
VlookupSubmitted(sheets, f) ==
    /\ Len(sheets) = 2
    /\ LET df_left == read_and_clean_sheet(sheets[1].data)
           df_right == read_and_clean_sheet(sheets[2].data)
       IN /\ f.merge_key \in common_columns(df_left, df_right)
          /\ IsUnique(f.cols_to_merge)
          /\ Range(f.cols_to_merge)
                 \subseteq Range(available_cols_from_right(df_right, f.merge_key))
          /\ LET ctx == vlookup_submit(Enter(session_state), df_left, df_right,
                                       f.merge_key, f.cols_to_merge)
             IN /\ session_state' = ctx.s
                /\ written' = ctx.w
                /\ message' = ctx.msg
    /\ had_result' = (session_state.final_df # None)
    /\ app_mode' = "vlookup"
    /\ uploads' = sheets
    /\ form' = f

\* app.py:156-290 with the sheets and widget values of the run
MultiSubmitted(sheets, f) ==
    /\ f.merge_type \in {"vertical", "horizontal"}
    /\ f.join_how \in {"inner", "outer", "left"}
    /\ IF f.merge_type = "horizontal" /\ common_columns_for_key(sheets) # {}
       THEN f.join_key \in common_columns_for_key(sheets)
       ELSE f.join_key = ""
    /\ f.merge_type = "vertical" => f.join_how = "inner"
    /\ LET ctx == multi_submit(Enter(session_state), sheets, f)
       IN /\ session_state' = ctx.s
          /\ written' = ctx.w
          /\ message' = ctx.msg
    /\ had_result' = (session_state.final_df # None)
    /\ app_mode' = "multi"
    /\ uploads' = sheets
    /\ form' = f

\* the submit button of the form on screen
SubmitVlookup == app_mode = "vlookup" /\ VlookupSubmitted(uploads, form)

SubmitMulti == app_mode = "multi" /\ MultiSubmitted(uploads, form)

-----------------------------------------------------------------------------
(* The sheets and widget values the specifications draw from *)

Sheet(file, sheet, data) == [file |-> file, sheet |-> sheet, data |-> data]

FileName(i) == "f" \o IntToStr(i) \o ".xlsx"

\* a sheet as read_excel returns it: keys under the first column, a text
\* naming the row (prefix and row number) under every other column
RawSheet(cols, keys, prefix) ==
    DataFrame(cols,
              [r \in 1..Len(keys) |->
                  [j \in 1..Len(cols) |->
                      IF j = 1 THEN keys[r] ELSE StrVal(prefix \o IntToStr(r))]])

KeySeqs(vals, lo, hi) == UNION {[1..k -> vals] : k \in lo..hi}

SubSeqs(seq) == {SelectSeq(seq, LAMBDA c : c \in S) : S \in SUBSET Range(seq)}

KeyVals == {IntVal(1), IntVal(2), StrVal("1")}

LeftSchemas == {<<"id", "name">>, <<"id", NOTE_COL>>}

RightSchemas == {<<"id", "dept">>, <<"id", "name">>}

Start(mode, sheets, f) ==
    /\ app_mode = mode
    /\ uploads = sheets
    /\ form = f
    /\ session_state = InitialSession
    /\ written = {}
    /\ had_result = FALSE
    /\ message = ""

\* the VLOOKUP form on screen with two sheets read, nothing submitted yet
InitLookup ==
    \E ls \in LeftSchemas, rs \in RightSchemas :
      \E lk \in KeySeqs(KeyVals, 0, MaxLeftRows), rk \in KeySeqs(KeyVals, 0, MaxRightRows) :
        LET sheets == <<Sheet("left.xlsx", "Sheet1", RawSheet(ls, lk, "L")),
                        Sheet("right.xlsx", "Sheet1", RawSheet(rs, rk, "R"))>>
        IN \E key \in common_columns(sheets[1].data, sheets[2].data) :
             \E cols \in SubSeqs(available_cols_from_right(sheets[2].data, key)) :
               Start("vlookup", sheets, VForm(key, cols))

SpecLookup == InitLookup /\ [][SubmitVlookup]_vars

ConcatSchemas == {<<"id", "name">>, <<"id", "dept">>, <<"dept", SRC_FILE_COL>>}

ConcatChoices == {[cols |-> c, n |-> k] : c \in ConcatSchemas, k \in 0..MaxSheetRows}

\* the multi-file form on screen, stacking chosen, nothing submitted yet
InitConcat ==
    \E n \in 0..MaxSheets :
      \E ch \in [1..n -> ConcatChoices], tag \in BOOLEAN :
        Start("multi",
              [i \in 1..n |->
                  Sheet(FileName(i), "Sheet1",
                        RawSheet(ch[i].cols, [r \in 1..ch[i].n |-> IntVal(r)],
                                 "T" \o IntToStr(i) \o "r"))],
              MForm("vertical", "", "inner", tag))

SpecConcat == InitConcat /\ [][SubmitMulti]_vars

JoinKeyVals == {IntVal(1), IntVal(2), StrVal("1")}

JoinSchemas == {<<"id", "name">>, <<"id", "dept">>, <<NOTE_COL, "name">>}

JoinChoices ==
    {[cols |-> c, keys |-> k] : c \in JoinSchemas, k \in KeySeqs(JoinKeyVals, 1, MaxJoinRows)}

\* the multi-file form on screen, joining chosen, nothing submitted yet
InitJoin ==
    \E n \in 1..MaxJoinSheets :
      \E ch \in [1..n -> JoinChoices], how \in {"inner", "outer", "left"} :
        LET sheets == [i \in 1..n |->
                          Sheet(FileName(i), "Sheet1",
                                RawSheet(ch[i].cols, ch[i].keys,
                                         "T" \o IntToStr(i) \o "r"))]
        IN \E key \in IF common_columns_for_key(sheets) = {} THEN {""}
                      ELSE common_columns_for_key(sheets) :
             Start("multi", sheets, MForm("horizontal", key, how, TRUE))

SpecJoin == InitJoin /\ [][SubmitMulti]_vars

-----------------------------------------------------------------------------
(* A session: any number of submissions, of either form, one after another *)

\* -1: one row with a text key; k >= 0: k rows, each with the key 1
SessionChoices == {-1, 0, MaxSessionRows}

SessionSheet(c, cols, prefix) ==
    IF c = -1 THEN RawSheet(cols, <<StrVal("x")>>, prefix)
    ELSE RawSheet(cols, [r \in 1..c |-> IntVal(1)], prefix)

\* the values the multi-file form can hold for these sheets
MultiForms(sheets) ==
    {MForm("vertical", "", "inner", tag) : tag \in BOOLEAN}
    \cup {MForm("horizontal", key, how, TRUE) :
            key \in IF common_columns_for_key(sheets) = {} THEN {""}
                    ELSE common_columns_for_key(sheets),
            how \in {"inner", "outer", "left"}}

\* the user picks VLOOKUP mode, uploads two files, fills the form, submits
UploadSubmitVlookup ==
    \E l \in SessionChoices, r \in SessionChoices :
      LET sheets == <<Sheet("left.xlsx", "Sheet1", SessionSheet(l, <<"id", "name">>, "L")),
                      Sheet("right.xlsx", "Sheet1", SessionSheet(r, <<"id", "dept">>, "R"))>>
      IN \E key \in common_columns(sheets[1].data, sheets[2].data) :
           \E cols \in SubSeqs(available_cols_from_right(sheets[2].data, key)) :
             VlookupSubmitted(sheets, VForm(key, cols))

\* the user picks multi-file mode, uploads files, fills the form, submits
UploadSubmitMulti ==
    \E n \in 0..MaxSessionSheets :
      \E ch \in [1..n -> SessionChoices] :
        LET sheets == [i \in 1..n |->
                          Sheet(FileName(i), "Sheet1",
                                SessionSheet(ch[i], <<"id", "name">>,
                                             "T" \o IntToStr(i) \o "r"))]
        IN \E f \in MultiForms(sheets) : MultiSubmitted(sheets, f)

\* app.py:53-60: a new session, nothing uploaded
Init == Start("vlookup", <<>>, VForm("", <<>>))

Next == UploadSubmitVlookup \/ UploadSubmitMulti

Spec == Init /\ [][Next]_vars

-----------------------------------------------------------------------------
(* What the claims speak of *)

Count(seq, x) == Cardinality({i \in DOMAIN seq : seq[i] = x})

\* the sheets as the handlers get them from read_and_clean_sheet
In(i) == read_and_clean_sheet(uploads[i].data)

Primary == In(1)

Secondary == In(2)

Final == session_state.final_df[1]

UnmatchedRows == session_state.unmatched_df[1].rows

LookupDone == app_mode = "vlookup" /\ message = "success"

ConcatSubmitted == app_mode = "multi" /\ form.merge_type = "vertical" /\ message # ""

ConcatDone == ConcatSubmitted /\ message = "success"

JoinDone == app_mode = "multi" /\ form.merge_type = "horizontal" /\ message = "success"

\* the value of row under column c of df
Cell(df, row, c) == row[ColIdx(df, c)]

-----------------------------------------------------------------------------
(* C1, lookup row-count invariant: after a lookup merge the result table  *)
(* has exactly as many rows as the primary (left) table.                  *)
LookupRowCount ==
    LookupDone => Len(Final.rows) = Len(Primary.rows)

(* C2, lookup dedup law: for a key the secondary table holds on several   *)
(* rows, the result has one row per primary row with that key, and its    *)
(* selected columns carry the values of the first secondary row with the  *)
(* key.                                                                   *)
LookupDedup ==
    LookupDone =>
        \A v \in DuplicatedKeys(Secondary, form.merge_key) :
            LET first == CHOOSE q \in 1..Len(Secondary.rows) :
                            /\ Column(Secondary, form.merge_key)[q] = v
                            /\ \A p \in 1..(q - 1) :
                                   Column(Secondary, form.merge_key)[p] # v
            IN /\ Count(Column(Final, form.merge_key), v)
                      = Count(Column(Primary, form.merge_key), v)
               /\ \A r \in 1..Len(Final.rows) :
                      Column(Final, form.merge_key)[r] = v =>
                          \A j \in 1..Len(form.cols_to_merge) :
                              Final.rows[r][Len(Primary.cols) + j]
                                  = Cell(Secondary, Secondary.rows[first],
                                         form.cols_to_merge[j])

(* C3, lookup unmatched completeness: after a successful lookup merge the *)
(* unmatched set has the secondary table's columns, and holds each row of *)
(* the secondary table as often as the table does when the row's key is   *)
(* the key of no primary row, and not at all when it is.                  *)
UnmatchedComplete ==
    LookupDone =>
        /\ session_state.unmatched_df # None
        /\ session_state.unmatched_df[1].cols = Secondary.cols
        /\ \A row \in Range(Secondary.rows) \cup Range(UnmatchedRows) :
               Count(UnmatchedRows, row)
                   = IF Cell(Secondary, row, form.merge_key)
                            \in Range(Column(Primary, form.merge_key))
                     THEN 0
                     ELSE Count(Secondary.rows, row)

\* a lookup with a duplicated unmatched key and a matched row in the
\* secondary table
UnmatchedCompleteWitness ==
    /\ LookupDone
    /\ Len(Primary.rows) > 0
    /\ Len(UnmatchedRows) < Len(Secondary.rows)
    /\ \E p, q \in 1..Len(UnmatchedRows) :
           /\ p # q
           /\ Cell(Secondary, UnmatchedRows[p], form.merge_key)
                  = Cell(Secondary, UnmatchedRows[q], form.merge_key)

(* C4, join fan-out law: in a key-join of two tables, a key held by k > 1 *)
(* rows of one table and by one row of the other is the key of exactly k  *)
(* result rows, is in the duplicate-key list, and each of those rows has  *)
(* the annotation mark in the annotation column.                          *)
JoinFanOut ==
    (JoinDone /\ Len(uploads) = 2) =>
        \A v \in Range(Column(In(1), form.join_key)) :
            LET a == Count(Column(In(1), form.join_key), v)
                b == Count(Column(In(2), form.join_key), v)
                k == IF a > b THEN a ELSE b
            IN (k > 1 /\ (a = 1 \/ b = 1)) =>
                   /\ Count(Column(Final, form.join_key), v) = k
                   /\ v \in session_state.duplication_warning_keys
                   /\ NOTE_COL \in Range(Final.cols)
                   /\ \A r \in 1..Len(Final.rows) :
                          Column(Final, form.join_key)[r] = v =>
                              Column(Final, NOTE_COL)[r] = StrVal(NOTE_MARK)

(* C5, column-collision uniqueness: after a lookup merge the result's     *)
(* column names are pairwise distinct and no column of the primary table  *)
(* is dropped or overwritten: every result row starts with the cells of a *)
(* primary row.                                                           *)
ColumnsKept ==
    LookupDone =>
        /\ IsUnique(Final.cols)
        /\ \A r \in 1..Len(Final.rows) :
               \E p \in 1..Len(Primary.rows) :
                   SubSeq(Final.rows[r], 1, Len(Primary.cols)) = Primary.rows[p]

\* where the rows of sheet i begin in a stack of the sheets
RECURSIVE Offset(_)
Offset(i) == IF i = 1 THEN 0 ELSE Offset(i - 1) + Len(In(i - 1).rows)

\* the columns the source tagging assigns
TagCols == IF form.add_source_col THEN {SRC_FILE_COL, SRC_SHEET_COL} ELSE {}

(* C6, concatenation row-count law: stacking a non-empty list of sheets   *)
(* succeeds, the result has the sum of their row counts, and row r of     *)
(* sheet i is result row r + (rows of the sheets before i), with sheet    *)
(* i's cells under sheet i's columns (the tagged columns aside).          *)
ConcatRowCount ==
    (ConcatSubmitted /\ Len(uploads) > 0) =>
        /\ message = "success"
        /\ session_state.final_df # None
        /\ Len(Final.rows) = Offset(Len(uploads)) + Len(In(Len(uploads)).rows)
        /\ \A i \in 1..Len(uploads) :
               \A r \in 1..Len(In(i).rows) :
                   \A c \in Range(In(i).cols) \ TagCols :
                       /\ c \in Range(Final.cols)
                       /\ Offset(i) + r <= Len(Final.rows)
                       /\ Cell(Final, Final.rows[Offset(i) + r], c)
                              = Cell(In(i), In(i).rows[r], c)

\* a tagged stack of three sheets with rows, the second with a column the
\* first does not have
ConcatRowCountWitness ==
    /\ ConcatDone
    /\ form.add_source_col
    /\ Len(uploads) = 3
    /\ \A i \in 1..3 : Len(In(i).rows) > 0
    /\ Range(In(2).cols) \ Range(In(1).cols) # {}

(* C7, session result replacement: whatever was submitted before, each of *)
(* the four values the session holds was assigned by the latest           *)
(* submission or is empty.                                                *)
SessionReplaced ==
    \A f \in Fields : f \in written \/ session_state[f] = InitialSession[f]

\* a submission that failed while the session held an earlier result
SessionReplacedWitness ==
    /\ had_result
    /\ message = "error"
    /\ session_state.final_df = None

\* the merge of sheets 1..i of a key-join
Accumulated(i) ==
    ReduceMerge(In(1), [j \in 1..i |-> In(j)], form.join_key, form.join_how, 2).df

(* C8, key-join unmatched diagnostics: after a key-join, every row of a   *)
(* joined-in sheet i >= 2 whose key is not a key of the merge of the      *)
(* sheets before it is in the session's unmatched set.                    *)
JoinUnmatchedRecorded ==
    JoinDone =>
        \A i \in 2..Len(uploads) :
            \A r \in 1..Len(In(i).rows) :
                Column(In(i), form.join_key)[r]
                        \notin Range(Column(Accumulated(i - 1), form.join_key)) =>
                    /\ session_state.unmatched_df # None
                    /\ In(i).rows[r] \in Range(UnmatchedRows)

\* the key cells of a sheet as read_excel returns them
RawKeys(i) == Range(Column(uploads[i].data, form.merge_key))

(* C9, key normalization: in a lookup where a key of the primary sheet    *)
(* and a key of the secondary sheet have the same text, one stored as a   *)
(* number and the other as text, the merge succeeds and no secondary row  *)
(* whose key has the text of a primary key is reported unmatched.         *)
KeyNormalized ==
    (/\ app_mode = "vlookup"
     /\ message # ""
     /\ \E a \in RawKeys(1), b \in RawKeys(2) : a.t # b.t /\ PyStr(a) = PyStr(b)) =>
        /\ message = "success"
        /\ \A q \in 1..Len(Secondary.rows) :
               PyStr(Column(uploads[2].data, form.merge_key)[q])
                       \in {PyStr(a) : a \in RawKeys(1)} =>
                   Secondary.rows[q] \notin Range(UnmatchedRows)

(* C10, source-tag column position: after a concatenation with source     *)
(* tagging on, the source-file and source-sheet columns are the last two  *)
(* columns of the result.                                                 *)
TagColumnsLast ==
    (ConcatDone /\ form.add_source_col) =>
        /\ Len(Final.cols) >= 2
        /\ Final.cols[Len(Final.cols) - 1] = SRC_FILE_COL
        /\ Final.cols[Len(Final.cols)] = SRC_SHEET_COL

====
